---- MODULE Spec2Model ----
(***************************************************************************)
(* Model of the two countdown clocks and the scroll fade-in handler of the *)
(* sports_portal front-end scripts:                                        *)
(*   - static/js/golf.js : time_remaining / run_clock / update_clock       *)
(*   - part_000          : the birthday countdown IIFE (setInterval, 0 ms) *)
(*   - both files        : the document "scroll" handler for .fadein       *)
(* Time is in milliseconds since the midnight that starts 09/15/EpochYear,  *)
(* local time, the local time zone being UTC: golf.js's deadline (08/31     *)
(* 15:59:00 UTC) lies 14 days 8 h 1 min before it and part_000's target     *)
(* (09/30 00:00) 15 days after it.  The two countdowns are observed on two  *)
(* page sessions, each with its own reading of the wall clock, near its own *)
(* deadline.  Strings are sequences of one-character strings.               *)
(***************************************************************************)
EXTENDS Integers, Sequences, FiniteSets, TLC

(* ---------------- program constants (part_000 lines 128-131) ----------- *)
second == 1000
minute == second * 60
hour == minute * 60
day == hour * 24

(* ---------------- bounds of the model ---------------------------------- *)
\* the observer counters (computations, interval callbacks, expiry runs)
\* stop counting at MaxCount
MaxCount == 3
\* year of the model's epoch (09/15/EpochYear 00:00 local time is instant 0)
EpochYear == 2025

(* ---------------- JavaScript primitives -------------------------------- *)
\* a % b of JavaScript: the remainder takes the sign of the dividend
JsRem(a, b) == IF a >= 0 THEN a % b ELSE -((-a) % b)

\* Math.floor(a / b) for b > 0
MathFloorDiv(a, b) == a \div b

Digit == <<"0", "1", "2", "3", "4", "5", "6", "7", "8", "9">>

RECURSIVE NatToString(_)
NatToString(n) ==
    IF n < 10 THEN <<Digit[n + 1]>>
    ELSE NatToString(n \div 10) \o <<Digit[(n % 10) + 1]>>

\* String(n) / '' + n / innerText = n, for an integer n
NumberToString(n) == IF n < 0 THEN <<"-">> \o NatToString(-n) ELSE NatToString(n)

\* s.slice(-2): the last two characters of s (all of s when it is shorter)
SliceLast2(s) == IF Len(s) <= 2 THEN s ELSE SubSeq(s, Len(s) - 1, Len(s))

\* s.padStart(2, "0")
PadStart2(s) == IF Len(s) >= 2 THEN s ELSE <<"0">> \o s

\* UTF-16 code units of the characters that occur in the date strings
CharCode ==
    [c \in {"-", "/", "0", "1", "2", "3", "4", "5", "6", "7", "8", "9"} |->
        CASE c = "-" -> 45
          [] c = "/" -> 47
          [] c = "0" -> 48
          [] c = "1" -> 49
          [] c = "2" -> 50
          [] c = "3" -> 51
          [] c = "4" -> 52
          [] c = "5" -> 53
          [] c = "6" -> 54
          [] c = "7" -> 55
          [] c = "8" -> 56
          [] c = "9" -> 57]

\* a > b on strings: lexicographic by code unit, a proper prefix is smaller
RECURSIVE StringGreater(_, _)
StringGreater(a, b) ==
    IF a = <<>> THEN FALSE
    ELSE IF b = <<>> THEN TRUE
    ELSE IF Head(a) = Head(b) THEN StringGreater(Tail(a), Tail(b))
    ELSE CharCode[Head(a)] > CharCode[Head(b)]

\* the number a string of decimal digits denotes
RECURSIVE DigitsToNat(_)
DigitsToNat(s) ==
    IF s = <<>> THEN 0
    ELSE 10 * DigitsToNat(SubSeq(s, 1, Len(s) - 1)) + (CharCode[s[Len(s)]] - 48)

(* ---------------- calendar (local time) -------------------------------- *)
\* Date.parse(deadline) for deadline = 'august 31 2025 11:59:00 GMT-0400',
\* that is 08/31/2025 15:59:00 UTC: 14 days, 8 hours and 1 minute before
\* the epoch
Deadline == -(14 * day + 8 * hour + minute)

\* instants at which the page with golf.js reads the wall clock: more than
\* a day, and an hour, before the deadline, the second before it, the
\* deadline's own second, the seconds after it, ten days later, the epoch
GolfInstants ==
    {Deadline - day - hour - minute - second - 500,
     Deadline - hour - minute - second,
     Deadline - 1,
     Deadline,
     Deadline + 999,
     Deadline + second,
     Deadline + 10 * day + 5 * hour + 500,
     0}

\* instants at which the page with part_000 reads the wall clock: 09/29,
\* whole hours, minutes and seconds before the target, the millisecond
\* before and after it, the target itself, the end of 09/30
BdayInstants ==
    {14 * day, 14 * day + hour, 15 * day - hour - minute - second - 500,
     15 * day - 1, 15 * day, 15 * day + 1, 15 * day + second,
     16 * day - 1}

IsLeapYear(y) == (y % 4 = 0 /\ y % 100 # 0) \/ y % 400 = 0

DaysInMonth(m, y) ==
    CASE m \in {4, 6, 9, 11} -> 30
      [] m = 2 -> IF IsLeapYear(y) THEN 29 ELSE 28
      [] OTHER -> 31

RECURSIVE DaysBeforeMonth(_, _)
DaysBeforeMonth(m, y) ==
    IF m = 1 THEN 0 ELSE DaysBeforeMonth(m - 1, y) + DaysInMonth(m - 1, y)

\* whole days from the epoch (09/15/EpochYear) to the date m/d/y, y >= EpochYear
RECURSIVE DaysFromEpoch(_, _, _)
DaysFromEpoch(y, m, d) ==
    IF y = EpochYear
    THEN DaysBeforeMonth(m, y) + d - (DaysBeforeMonth(9, EpochYear) + 15)
    ELSE DaysFromEpoch(y - 1, 12, 31) + DaysBeforeMonth(m, y) + d

\* today.getFullYear(), today.getMonth() (0-based), today.getDate() of the
\* Date whose time value is t, for t from 09/15 to the end of October of
\* EpochYear
GetFullYear(t) == EpochYear
GetMonth(t) == IF t \div day <= 15 THEN 8 ELSE 9
GetDate(t) == IF t \div day <= 15 THEN 15 + (t \div day) ELSE (t \div day) - 15

\* the parts of a date string "MM/DD/YYYY"
DateParts(s) ==
    [month |-> DigitsToNat(SubSeq(s, 1, 2)),
     date  |-> DigitsToNat(SubSeq(s, 4, 5)),
     year  |-> DigitsToNat(SubSeq(s, 7, Len(s)))]

\* new Date("MM/DD/YYYY").getTime(): local midnight of that date
DateGetTime(s) ==
    LET p == DateParts(s) IN DaysFromEpoch(p.year, p.month, p.date) * day

\* Date.parse(new Date()): the Date is converted to its string form, which
\* carries whole seconds only, and parsed back
DateParseNow(t) == t - (t % second)

(* ---------------- state ------------------------------------------------- *)
VARIABLES
    now,            \* the wall clock read on the page with part_000
    \* golf.js countdown
    g_now,          \* the wall clock read on the page with golf.js
    endtime,        \* Date.parse(endtime) of run_clock's deadline
    g_pc,           \* "load" before run_clock is called, "running" after
    timeinterval,   \* the interval handle: "undefined", "armed" or "cleared"
    g_t,            \* the record time_remaining returned last
    spans,          \* innerHTML of the days/hours/minutes/seconds spans
    g_n,            \* number of update_clock executions (observer)
    g_ticks,        \* number of interval callbacks run (observer)
    g_cancelled,    \* the interval was cleared from outside right after start
    \* part_000 countdown
    b_pc,           \* "load" before the countdown function ran, "running" after
    birthday,       \* the date string the target is parsed from
    countDown,      \* the target instant
    x,              \* the interval handle: "undefined", "armed" or "cleared"
    distance,       \* the distance computed by the last callback
    slots,          \* innerText of the days/hours/minutes/seconds elements
    panels,         \* headline text, display of "countdown" and of "content"
    b_n,            \* number of distance computations (observer)
    b_ticks,        \* number of interval callbacks run (observer)
    expiryRuns,     \* number of times the expiry block ran (observer)
    b_cancelled,    \* the interval was cleared from outside right after start
    \* date initialisation checked on its own
    cal,            \* the calendar reading of new Date() at initialisation
    target,         \* the birthday string computed from cal
    \* scroll handler
    tops,           \* offset().top of every element
    fadein,         \* the elements with class fadein
    visible,        \* the elements with class visible
    pageBottom,     \* pageBottom read by the last scroll handler
    scrolled        \* number of scroll handlers run (observer)

gvars == <<g_now, endtime, g_pc, timeinterval, g_t, spans, g_n, g_ticks, g_cancelled>>
bvars == <<b_pc, birthday, countDown, x, distance, slots, panels, b_n, b_ticks,
           expiryRuns, b_cancelled>>
dvars == <<cal, target>>
svars == <<tops, fadein, visible, pageBottom, scrolled>>
vars == <<now, gvars, bvars, dvars, svars>>

\* an observer counter that stops at MaxCount
Count(n) == IF n < MaxCount THEN n + 1 ELSE n

Blank == [days |-> <<>>, hours |-> <<>>, minutes |-> <<>>, seconds |-> <<>>]

(* ---------------- golf.js: time_remaining, run_clock, update_clock ------ *)
\* time_remaining with the % 60 of the minutes left out (sensitivity variant)
time_remaining_noMod(end, t_now) ==
    LET t == end - DateParseNow(t_now)
    IN  [total   |-> t,
         days    |-> MathFloorDiv(t, day),
         hours   |-> MathFloorDiv(JsRem(t, day), hour),
         minutes |-> MathFloorDiv(t, minute),
         seconds |-> MathFloorDiv(JsRem(t, minute), second)]

\* Math.floor((t/1000) % 60) = floor(JsRem(t, 60000) / 1000), and likewise
\* for the minutes and the hours
time_remaining(end, t_now) ==
    LET t == end - DateParseNow(t_now)
    IN  [total   |-> t,
         days    |-> MathFloorDiv(t, day),
         hours   |-> MathFloorDiv(JsRem(t, day), hour),
         minutes |-> MathFloorDiv(JsRem(t, hour), minute),
         seconds |-> MathFloorDiv(JsRem(t, minute), second)]

\* the innerHTML assignments without the '0' + ... slice(-2) padding
\* (sensitivity variant)
GolfSpans_noPad(t) ==
    [days    |-> NumberToString(t.days),
     hours   |-> NumberToString(t.hours),
     minutes |-> NumberToString(t.minutes),
     seconds |-> NumberToString(t.seconds)]

\* the four innerHTML assignments of update_clock
GolfSpans(t) ==
    [days    |-> NumberToString(t.days),
     hours   |-> SliceLast2(<<"0">> \o NumberToString(t.hours)),
     minutes |-> SliceLast2(<<"0">> \o NumberToString(t.minutes)),
     seconds |-> SliceLast2(<<"0">> \o NumberToString(t.seconds))]

\* clearInterval(h): cancels an armed interval, does nothing for any other
\* value (undefined, or a handle already cleared)
ClearInterval(h) == IF h = "armed" THEN "cleared" ELSE h

\* the stop test written t.total == 0 (sensitivity variant)
AfterUpdate_onlyZero(h) ==
    IF time_remaining(endtime, g_now).total = 0 THEN ClearInterval(h) ELSE h

\* the value of timeinterval after update_clock's last line, h before it
AfterUpdate(h) ==
    IF time_remaining(endtime, g_now).total <= 0 THEN ClearInterval(h) ELSE h

\* update_clock up to its last line: compute and write the four spans
update_clock ==
    LET t == time_remaining(endtime, g_now)
    IN  /\ g_t' = t
        /\ spans' = GolfSpans(t)
        /\ g_n' = Count(g_n)

\* run_clock: update_clock() runs synchronously while timeinterval is still
\* undefined, then setInterval arms the interval
RunClock ==
    /\ g_pc = "load"
    /\ update_clock
    /\ LET h == AfterUpdate(timeinterval)
       IN  timeinterval' = "armed"
    /\ g_pc' = "running"
    /\ UNCHANGED <<now, g_now, endtime, g_ticks, g_cancelled, bvars, dvars, svars>>

\* the host runs the interval callback update_clock
GolfTick ==
    /\ g_pc = "running"
    /\ timeinterval = "armed"
    /\ update_clock
    /\ timeinterval' = AfterUpdate(timeinterval)
    /\ g_ticks' = Count(g_ticks)
    /\ UNCHANGED <<now, g_now, endtime, g_pc, g_cancelled, bvars, dvars, svars>>

(* ---------------- part_000: the birthday countdown ---------------------- *)
\* the date block with the comparison turned into >= (sensitivity variant)
Birthday_orEqual(date, month0, fullYear) ==
    LET dd == PadStart2(NumberToString(date))
        mm == PadStart2(NumberToString(month0 + 1))
        yyyy == NumberToString(fullYear)
        nextYear == NumberToString(fullYear + 1)
        dayMonth == <<"0", "9", "/", "3", "0", "/">>
        today == mm \o <<"/">> \o dd \o <<"/">> \o yyyy
    IN  IF today = dayMonth \o yyyy \/ StringGreater(today, dayMonth \o yyyy)
        THEN dayMonth \o nextYear
        ELSE dayMonth \o yyyy

\* the date block: the birthday string for the Date getters' values
\* date = today.getDate(), month0 = today.getMonth(), fullYear = getFullYear()
Birthday(date, month0, fullYear) ==
    LET dd == PadStart2(NumberToString(date))
        mm == PadStart2(NumberToString(month0 + 1))
        yyyy == NumberToString(fullYear)
        nextYear == NumberToString(fullYear + 1)
        dayMonth == <<"0", "9", "/", "3", "0", "/">>
        today == mm \o <<"/">> \o dd \o <<"/">> \o yyyy
    IN  IF StringGreater(today, dayMonth \o yyyy)
        THEN dayMonth \o nextYear
        ELSE dayMonth \o yyyy

InitialPanels == [headline |-> "initial", countdown |-> "initial", content |-> "initial"]

ExpiredPanels == [headline |-> "It's my birthday!", countdown |-> "none", content |-> "block"]

\* the four innerText assignments of the interval callback
BSlots(dist) ==
    [days    |-> NumberToString(MathFloorDiv(dist, day)),
     hours   |-> NumberToString(MathFloorDiv(JsRem(dist, day), hour)),
     minutes |-> NumberToString(MathFloorDiv(JsRem(dist, hour), minute)),
     seconds |-> NumberToString(MathFloorDiv(JsRem(dist, minute), second))]

\* the countdown function with a first callback run synchronously, as
\* run_clock does (sensitivity variant)
BLoad_syncTick ==
    /\ b_pc = "load"
    /\ birthday' = Birthday(GetDate(now), GetMonth(now), GetFullYear(now))
    /\ countDown' = DateGetTime(birthday')
    /\ distance' = countDown' - now
    /\ slots' = BSlots(countDown' - now)
    /\ b_n' = Count(b_n)
    /\ x' = "armed"
    /\ b_pc' = "running"
    /\ UNCHANGED <<now, panels, b_ticks, expiryRuns, b_cancelled,
                   gvars, dvars, svars>>

\* the immediately-invoked countdown function: the date block, the target
\* instant, and setInterval(callback, 0)
BLoad ==
    /\ b_pc = "load"
    /\ birthday' = Birthday(GetDate(now), GetMonth(now), GetFullYear(now))
    /\ countDown' = DateGetTime(birthday')
    /\ x' = "armed"
    /\ b_pc' = "running"
    /\ UNCHANGED <<now, distance, slots, panels, b_n, b_ticks, expiryRuns,
                   b_cancelled, gvars, dvars, svars>>

\* the interval callback without its clearInterval (sensitivity variant)
BTick_noClear ==
    /\ b_pc = "running"
    /\ x = "armed"
    /\ LET dist == countDown - now
       IN  /\ distance' = dist
           /\ slots' = BSlots(dist)
           /\ IF dist < 0
              THEN /\ panels' = ExpiredPanels
                   /\ expiryRuns' = Count(expiryRuns)
              ELSE UNCHANGED <<panels, expiryRuns>>
    /\ b_n' = Count(b_n)
    /\ b_ticks' = Count(b_ticks)
    /\ UNCHANGED <<now, b_pc, birthday, countDown, x, b_cancelled,
                   gvars, dvars, svars>>

\* the host runs the interval callback
BTick ==
    /\ b_pc = "running"
    /\ x = "armed"
    /\ LET dist == countDown - now
       IN  /\ distance' = dist
           /\ slots' = BSlots(dist)
           /\ IF dist < 0
              THEN /\ panels' = ExpiredPanels
                   /\ x' = ClearInterval(x)
                   /\ expiryRuns' = Count(expiryRuns)
              ELSE UNCHANGED <<panels, x, expiryRuns>>
    /\ b_n' = Count(b_n)
    /\ b_ticks' = Count(b_ticks)
    /\ UNCHANGED <<now, b_pc, birthday, countDown, b_cancelled,
                   gvars, dvars, svars>>

(* ---------------- the wall clock ---------------------------------------- *)
\* time passes between two readings of the clock on the page with part_000
\* (new Date().getTime())
Advance ==
    /\ \E t \in BdayInstants : t > now /\ now' = t
    /\ UNCHANGED <<gvars, bvars, dvars, svars>>

\* time passes between two readings of the clock on the page with golf.js
\* (new Date())
GolfAdvance ==
    /\ \E t \in GolfInstants : t > g_now /\ g_now' = t
    /\ UNCHANGED <<now, endtime, g_pc, timeinterval, g_t, spans, g_n, g_ticks,
                   g_cancelled, bvars, dvars, svars>>

(* ---------------- the countdowns' specification ------------------------- *)
NoCal == [yyyy |-> 0, month |-> 0, date |-> 0, ms |-> 0]

NoScroll ==
    /\ tops = <<>>
    /\ fadein = {}
    /\ visible = {}
    /\ pageBottom = 0
    /\ scrolled = 0

\* the countdowns before either script has run
CountdownInit ==
    /\ g_pc = "load"
    /\ timeinterval = "undefined"
    /\ g_t = [total |-> 0, days |-> 0, hours |-> 0, minutes |-> 0, seconds |-> 0]
    /\ spans = Blank
    /\ g_n = 0
    /\ g_ticks = 0
    /\ g_cancelled = FALSE
    /\ b_pc = "load"
    /\ birthday = <<>>
    /\ countDown = 0
    /\ x = "undefined"
    /\ distance = 0
    /\ slots = Blank
    /\ panels = InitialPanels
    /\ b_n = 0
    /\ b_ticks = 0
    /\ expiryRuns = 0
    /\ b_cancelled = FALSE

Init ==
    /\ now \in BdayInstants
    /\ g_now \in GolfInstants
    /\ endtime = Deadline
    /\ CountdownInit
    /\ cal = NoCal
    /\ target = <<>>
    /\ NoScroll

Next ==
    \/ RunClock
    \/ GolfTick
    \/ BLoad
    \/ BTick
    \/ Advance
    \/ GolfAdvance

Spec == Init /\ [][Next]_vars

\* the clock keeps advancing, the scripts get loaded and the host keeps
\* running the callback of an armed interval
FairSpec ==
    /\ Spec
    /\ WF_vars(Advance)
    /\ WF_vars(GolfAdvance)
    /\ WF_vars(RunClock)
    /\ WF_vars(BLoad)
    /\ WF_vars(GolfTick)
    /\ WF_vars(BTick)

(* ---------------- cancelling right after the start ---------------------- *)
\* clearInterval on golf.js's handle before the host ran any callback
CancelGolf ==
    /\ g_pc = "running"
    /\ timeinterval = "armed"
    /\ g_ticks = 0
    /\ timeinterval' = ClearInterval(timeinterval)
    /\ g_cancelled' = TRUE
    /\ UNCHANGED <<now, g_now, endtime, g_pc, g_t, spans, g_n, g_ticks, bvars, dvars, svars>>

\* clearInterval on part_000's handle before the host ran any callback
CancelBday ==
    /\ b_pc = "running"
    /\ x = "armed"
    /\ b_ticks = 0
    /\ x' = ClearInterval(x)
    /\ b_cancelled' = TRUE
    /\ UNCHANGED <<now, b_pc, birthday, countDown, distance, slots, panels, b_n,
                   b_ticks, expiryRuns, gvars, dvars, svars>>

NextCancel ==
    \/ RunClock
    \/ GolfTick
    \/ BLoad
    \/ BTick
    \/ Advance
    \/ GolfAdvance
    \/ CancelGolf
    \/ CancelBday

SpecCancel == Init /\ [][NextCancel]_vars

(* ---------------- the date block on its own ----------------------------- *)
\* calendar readings of new Date() at initialisation: every month, the first
\* day, the last days, 09/30 itself, a leap year, several times of day
CalReadings ==
    {c \in [yyyy : {EpochYear, EpochYear + 3}, month : 0 .. 11,
            date : {1, 28, 29, 30, 31}, ms : {0, 1, day - 1}] :
        c.date <= DaysInMonth(c.month + 1, c.yyyy)}

InitDate ==
    /\ now = 0
    /\ g_now = 0
    /\ endtime = Deadline
    /\ CountdownInit
    /\ cal \in CalReadings
    /\ target = <<>>
    /\ NoScroll

\* the date block applied to the reading cal
ComputeBirthday ==
    /\ target = <<>>
    /\ target' = Birthday(cal.date, cal.month, cal.yyyy)
    /\ UNCHANGED <<now, gvars, bvars, cal, svars>>

NextDate == ComputeBirthday

SpecDate == InitDate /\ [][NextDate]_vars

(* ---------------- the scroll handler (.fadein) -------------------------- *)
\* number of elements of the page
NumElems == 3

Elems == 1 .. NumElems

Tops == {0, 600, 1400}

ScrollTops == {0, 200, 800}

WinHeights == {600, 800}

\* the loop with <= for < (sensitivity variant)
FadeinVisible_orEqual(pb) ==
    (visible \ fadein) \cup {e \in fadein : tops[e] <= pb}

\* the elements with class visible after the handler's loop over $(".fadein"),
\* pb the pageBottom it read
FadeinVisible(pb) ==
    (visible \ fadein) \cup {e \in fadein : tops[e] < pb}

\* a scroll event handled by golf.js's handler
GolfScroll ==
    /\ \E st \in ScrollTops, wh \in WinHeights :
          /\ pageBottom' = st + wh
          /\ visible' = FadeinVisible(st + wh)
    /\ scrolled' = Count(scrolled)
    /\ UNCHANGED <<now, gvars, bvars, dvars, tops, fadein>>

\* a scroll event handled by part_000's handler
PartScroll ==
    /\ \E st \in ScrollTops, wh \in WinHeights :
          /\ pageBottom' = st + wh
          /\ visible' = FadeinVisible(st + wh)
    /\ scrolled' = Count(scrolled)
    /\ UNCHANGED <<now, gvars, bvars, dvars, tops, fadein>>

InitScroll ==
    /\ now = 0
    /\ g_now = 0
    /\ endtime = Deadline
    /\ CountdownInit
    /\ cal = NoCal
    /\ target = <<>>
    /\ tops \in [Elems -> Tops]
    /\ fadein \in SUBSET Elems
    /\ visible \in SUBSET Elems
    /\ pageBottom = 0
    /\ scrolled = 0

NextScroll ==
    \/ GolfScroll
    \/ PartScroll

SpecScroll == InitScroll /\ [][NextScroll]_vars

(* ======================================================================= *)
(* Properties                                                              *)
(* ======================================================================= *)
Fields == {"days", "hours", "minutes", "seconds"}

\* the number a display string shows
SlotNumber(s) == IF Head(s) = "-" THEN -DigitsToNat(Tail(s)) ELSE DigitsToNat(s)

\* a display string that shows a negative number
ShowsNegative(s) == s # <<>> /\ Head(s) = "-"

\* the two-character, zero-padded form of n in 0 .. 99
TwoDigits(n) == <<Digit[(n \div 10) + 1], Digit[(n % 10) + 1]>>

\* the golf.js clock, resp. the part_000 clock, has computed a remaining time
GolfComputed == g_n > 0
BdayComputed == b_n > 0

\* C1 (as claimed): once a tick has computed a remaining total <= 0, the
\* interval is cancelled, the expiry action has run exactly once, and no
\* later step recomputes the remaining time or writes the display.
C1_NoTickAfterExpiry ==
    [][ /\ (GolfComputed /\ g_t.total <= 0) =>
              /\ timeinterval = "cleared"
              /\ g_n' = g_n
              /\ spans' = spans
        /\ (BdayComputed /\ distance <= 0) =>
              /\ x = "cleared"
              /\ expiryRuns = 1
              /\ expiryRuns' = expiryRuns
              /\ b_n' = b_n
              /\ slots' = slots ]_vars

\* days*86400000 + hours*3600000 + minutes*60000 + seconds*1000
Reconstitute(d, h, m, sec) == d * day + h * hour + m * minute + sec * second

GolfNonNegative ==
    g_t.days >= 0 /\ g_t.hours >= 0 /\ g_t.minutes >= 0 /\ g_t.seconds >= 0

BdayNonNegative == \A f \in Fields : SlotNumber(slots[f]) >= 0

GolfReconstituted == Reconstitute(g_t.days, g_t.hours, g_t.minutes, g_t.seconds)

BdayReconstituted ==
    Reconstitute(SlotNumber(slots.days), SlotNumber(slots.hours),
                 SlotNumber(slots.minutes), SlotNumber(slots.seconds))

\* C2 (as claimed): for now <= deadline the four fields are non-negative and
\* reconstituting them gives back the total milliseconds exactly.
C2_RoundTripExact ==
    /\ (GolfComputed /\ g_t.total >= 0) =>
          GolfNonNegative /\ GolfReconstituted = g_t.total
    /\ (BdayComputed /\ distance >= 0) =>
          BdayNonNegative /\ BdayReconstituted = distance

\* C2 (amended): for now <= deadline the four fields are non-negative and
\* reconstituting them gives the total rounded down to a whole second; the
\* part of the total below one second is dropped.
C2_RoundTripWholeSeconds ==
    /\ (GolfComputed /\ g_t.total >= 0) =>
          /\ GolfNonNegative
          /\ GolfReconstituted = g_t.total - (g_t.total % second)
    /\ (BdayComputed /\ distance >= 0) =>
          /\ BdayNonNegative
          /\ BdayReconstituted = distance - (distance % second)

\* C2 witness: both clocks have decomposed a positive remaining time, golf.js
\* one of more than a day, part_000 one with a part below a second.
C2_Witness ==
    /\ GolfComputed /\ g_t.total > day + hour
    /\ BdayComputed /\ distance > hour /\ distance % second # 0

\* the target date string is later than the calendar reading
TargetInFuture ==
    LET p == DateParts(target)
    IN  \/ p.year > cal.yyyy
        \/ /\ p.year = cal.yyyy
           /\ \/ p.month > cal.month + 1
              \/ p.month = cal.month + 1 /\ p.date > cal.date

\* C3 (as claimed): the target computed at initialisation is in the future
\* for every initialisation date and time of day, 09/30 included.
C3_TargetAlwaysFuture == target # <<>> => TargetInFuture

\* C3 (amended): the target is in the future for every initialisation date
\* other than 09/30; on 09/30 it is the midnight that started that day, so
\* it is not after the initialisation instant.
C3_TargetFutureExceptOnTheDay ==
    target # <<>> =>
        IF cal.month + 1 = 9 /\ cal.date = 30
        THEN DateParts(target) = [month |-> 9, date |-> 30, year |-> cal.yyyy]
        ELSE TargetInFuture

\* C3 witness: initialised after 09/30, the target moved to the next year.
C3_Witness ==
    /\ target # <<>>
    /\ cal.month + 1 = 10
    /\ DateParts(target).year = cal.yyyy + 1

\* the display shows zero in all four places
GolfShowsZero == \A f \in Fields : SlotNumber(spans[f]) = 0
BdayShowsZero == \A f \in Fields : SlotNumber(slots[f]) = 0

\* C4 (as claimed): a tick that reads now = deadline shows zero in all four
\* fields, and the next tick of that clock leaves its interval cancelled.
C4_ZeroThenTerminal ==
    [][ /\ (GolfComputed /\ g_t.total = 0) =>
              /\ GolfShowsZero
              /\ g_n' # g_n => timeinterval' = "cleared"
        /\ (BdayComputed /\ distance = 0) =>
              /\ BdayShowsZero
              /\ b_n' # b_n => x' = "cleared" ]_vars

\* C5: under fairness both countdowns end with their interval cleared, and
\* stay so.
C5_Terminates == <>[](timeinterval = "cleared" /\ x = "cleared")

\* C5 witness: both intervals are cleared and the clock has passed both
\* deadlines.
C5_Witness ==
    /\ timeinterval = "cleared" /\ x = "cleared"
    /\ g_now > endtime /\ now > countDown
    /\ g_t.total < 0 /\ distance < 0

\* C6 (as claimed): for now <= deadline both clocks show hours, minutes and
\* seconds as exactly two characters and the days unpadded.
C6_AllPadded ==
    /\ (GolfComputed /\ g_t.total >= 0) =>
          /\ \A f \in {"hours", "minutes", "seconds"} : Len(spans[f]) = 2
          /\ spans.days = NumberToString(g_t.total \div day)
    /\ (BdayComputed /\ distance >= 0) =>
          /\ \A f \in {"hours", "minutes", "seconds"} : Len(slots[f]) = 2
          /\ slots.days = NumberToString(distance \div day)

\* C6 (amended): for now <= deadline golf.js shows hours, minutes and
\* seconds as two zero-padded characters and the days unpadded; part_000
\* shows all four fields as unpadded decimal numbers.
C6_GolfPaddedBdayPlain ==
    /\ (GolfComputed /\ g_t.total >= 0) =>
          /\ spans.days = NumberToString(g_t.total \div day)
          /\ spans.hours = TwoDigits((g_t.total \div hour) % 24)
          /\ spans.minutes = TwoDigits((g_t.total \div minute) % 60)
          /\ spans.seconds = TwoDigits((g_t.total \div second) % 60)
    /\ (BdayComputed /\ distance >= 0) =>
          /\ slots.days = NumberToString(distance \div day)
          /\ slots.hours = NumberToString((distance \div hour) % 24)
          /\ slots.minutes = NumberToString((distance \div minute) % 60)
          /\ slots.seconds = NumberToString((distance \div second) % 60)

\* C6 witness: golf.js shows the hour 1 as "01" while part_000 shows it as "1".
C6_Witness ==
    /\ GolfComputed /\ g_t.total >= 0 /\ spans.hours = <<"0", "1">>
    /\ BdayComputed /\ distance >= 0 /\ slots.hours = <<"1">>

\* C7: in part_000 the expiry effects are applied on the tick that detects
\* expiry, exactly once, never on a tick with a positive remaining time, and
\* the panels then stay as they are.
C7_ExpiryOnce ==
    /\ [](/\ expiryRuns <= 1
          /\ panels = (IF expiryRuns = 1 THEN ExpiredPanels ELSE InitialPanels)
          /\ (BdayComputed /\ distance < 0) => expiryRuns = 1
          /\ expiryRuns = 1 => distance < 0)
    /\ [][ /\ expiryRuns' # expiryRuns => (distance' = countDown - now /\ distance' < 0)
           /\ panels = ExpiredPanels => panels' = ExpiredPanels ]_vars

\* C7 witness: the expiry effects were applied and the clock moved on since.
C7_Witness ==
    /\ expiryRuns = 1
    /\ panels = ExpiredPanels
    /\ now > countDown - distance

\* C8 (as claimed): cancelled right after the start, neither clock has
\* computed a remaining time or written its display.
C8_ZeroTicks ==
    /\ g_cancelled => (g_n = 0 /\ spans = Blank)
    /\ b_cancelled => (b_n = 0 /\ slots = Blank)

\* C8 (amended): cancelled right after the start, part_000 never computes or
\* writes anything; golf.js has made exactly one computation and display
\* write, the synchronous one inside run_clock, and makes no other.
C8_OnlyTheSynchronousUpdate ==
    /\ g_cancelled =>
          /\ g_n = 1
          /\ g_ticks = 0
          /\ timeinterval = "cleared"
    /\ b_cancelled =>
          /\ b_n = 0
          /\ slots = Blank
          /\ x = "cleared"

\* C8 witness: both clocks were cancelled right after their start and the
\* clock has since advanced past the second golf.js displayed.
C8_Witness ==
    /\ g_cancelled
    /\ b_cancelled
    /\ endtime - DateParseNow(g_now) < g_t.total

\* C9 (as claimed): no display slot ever holds a negative number.
C9_NoNegativeSlot ==
    \A f \in Fields : ~ShowsNegative(spans[f]) /\ ~ShowsNegative(slots[f])

\* C10: after a scroll handler every fadein element is visible exactly when
\* its top is above the page bottom the handler read, an element that was
\* visible loses the class when its top is no longer above it, and the
\* class of the other elements is left alone.
C10_FadeinFollowsScroll ==
    /\ [](scrolled > 0 =>
            \A e \in fadein : e \in visible <=> tops[e] < pageBottom)
    /\ [][ /\ \A e \in Elems \ fadein : e \in visible' <=> e \in visible
           /\ \A e \in fadein :
                 (e \in visible /\ tops[e] >= pageBottom') => e \notin visible'
         ]_vars

\* C10 witness: after two scrolls one fadein element sits exactly at the
\* page bottom and is not visible, another one is visible, and an element
\* without the fadein class carries visible.
C10_Witness ==
    /\ scrolled >= 2
    /\ \E e \in fadein : tops[e] = pageBottom /\ e \notin visible
    /\ \E e \in fadein : e \in visible
    /\ \E e \in Elems \ fadein : e \in visible

====
